---- MODULE Spec2Model ----
(***************************************************************************)
(* Persistent stack (src/src/stack.rs) and unbalanced binary search tree   *)
(* (src/src/set.rs) over an explicit heap of reference-counted (Arc)       *)
(* allocations.  A version held by the caller is an inline enum value; its *)
(* children are heap addresses, so sharing by identity is address equality.*)
(***************************************************************************)
EXTENDS Integers, Sequences, FiniteSets, TLC

\* ------------------------------------------------------------------ bounds
MaxHeap == 5
MaxTreeHeap == 6
MaxKey == 3

\* T of CustomStack<T>; the u32 indices tried (up to one past any size the
\* heap allows); K and V of Tree<K,V>
Values == {1, 2}
Indices == 0..MaxHeap
Keys == 1..MaxKey
MapValues == {1, 2}

\* ------------------------------------------------------------ stack values
\* enum StackError
NoSuchElementException == "NoSuchElementException"
IndexOutOfRange == "IndexOutOfRange"

\* enum CustomStack<T>: Empty | Cons { value, tail: Arc<CustomStack<T>> }
\* (a field that a variant or a result does not carry is written 0)
Empty == [tag |-> "Empty", value |-> 0, tail |-> 0]
Cons(v, t) == [tag |-> "Cons", value |-> v, tail |-> t]

\* Result<T, StackError>, Result<Arc<Self>, StackError>, Result<Self, StackError>
OkValue(v) == [ok |-> TRUE, err |-> "", value |-> v, arc |-> 0, stack |-> Empty]
OkArc(a) == [ok |-> TRUE, err |-> "", value |-> 0, arc |-> a, stack |-> Empty]
OkStack(s) == [ok |-> TRUE, err |-> "", value |-> 0, arc |-> 0, stack |-> s]
Err(e) == [ok |-> FALSE, err |-> e, value |-> 0, arc |-> 0, stack |-> Empty]

\* Arc::new(node): a fresh allocation at the next address of heap h.
ArcNew(h, node) == [heap |-> Append(h, node), arc |-> Len(h) + 1]

\* ------------------------------------------------------- stack operations
empty == Empty

is_empty(s) == s.tag = "Empty"

\* Faulty variant: the new value replaces the head instead of being pushed.
cons_replaces_head(h, s, v) ==
    IF s.tag = "Cons" THEN [heap |-> h, stack |-> Cons(v, s.tail)]
    ELSE LET a == ArcNew(h, s) IN [heap |-> a.heap, stack |-> Cons(v, a.arc)]

\* cons(&self, value): the receiver is cloned (a shallow copy of its top
\* node, the tail Arc shared) into a new Arc, which the new node points at.
cons(h, s, v) ==
    LET a == ArcNew(h, s) IN [heap |-> a.heap, stack |-> Cons(v, a.arc)]

head(s) ==
    IF s.tag = "Empty" THEN Err(NoSuchElementException) ELSE OkValue(s.value)

tail(s) ==
    IF s.tag = "Empty" THEN Err(NoSuchElementException) ELSE OkArc(s.tail)

RECURSIVE size(_, _)
size(h, s) ==
    IF s.tag = "Empty" THEN 0 ELSE 1 + size(h, h[s.tail])

\* Faulty variant: running off the end reports the wrong error kind.
RECURSIVE get_wrong_error(_, _, _)
get_wrong_error(h, s, i) ==
    IF s.tag = "Empty" THEN Err(NoSuchElementException)
    ELSE IF i = 0 THEN OkValue(s.value)
    ELSE get_wrong_error(h, h[s.tail], i - 1)

\* Faulty variant: the index is not decremented on the way down.
RECURSIVE get_no_decrement(_, _, _)
get_no_decrement(h, s, i) ==
    IF s.tag = "Empty" THEN Err(IndexOutOfRange)
    ELSE IF i = 0 THEN OkValue(s.value)
    ELSE get_no_decrement(h, h[s.tail], i)

RECURSIVE get(_, _, _)
get(h, s, i) ==
    IF s.tag = "Empty" THEN Err(IndexOutOfRange)
    ELSE IF i = 0 THEN OkValue(s.value)
    ELSE get(h, h[s.tail], i - 1)

\* Faulty variant: the node at index i is overwritten where it lies, not copied.
RECURSIVE update_in_place(_, _, _, _)
update_in_place(h, s, i, new_value) ==
    IF s.tag = "Empty" THEN [heap |-> h, res |-> Err(IndexOutOfRange)]
    ELSE IF i = 0
    THEN [heap |-> h, res |-> OkStack(Cons(new_value, s.tail))]
    ELSE IF i = 1 /\ h[s.tail].tag = "Cons"
    THEN [heap |-> [h EXCEPT ![s.tail] = Cons(new_value, @.tail)],
          res |-> OkStack(s)]
    ELSE LET updated_tail == update_in_place(h, h[s.tail], i - 1, new_value)
         IN  IF ~updated_tail.res.ok THEN updated_tail
             ELSE [heap |-> updated_tail.heap, res |-> OkStack(s)]

\* update(&self, i, new_value): returns the heap after the allocations made
\* and the Result.  At 0 the tail Arc is dereferenced and cons'ed on, which
\* copies the node behind it into a new Arc; the error passes through try!.
RECURSIVE update(_, _, _, _)
update(h, s, i, new_value) ==
    IF s.tag = "Empty" THEN [heap |-> h, res |-> Err(IndexOutOfRange)]
    ELSE IF i = 0
    THEN LET c == cons(h, h[s.tail], new_value)
         IN  [heap |-> c.heap, res |-> OkStack(c.stack)]
    ELSE LET updated_tail == update(h, h[s.tail], i - 1, new_value)
         IN  IF ~updated_tail.res.ok THEN updated_tail
             ELSE LET c == cons(updated_tail.heap, updated_tail.res.stack, s.value)
                  IN  [heap |-> c.heap, res |-> OkStack(c.stack)]

\* ------------------------------------------------------------- tree values
\* The value type of a set, (): one value carrying no information.
Unit == 0

\* enum Tree<K,V>: Empty | Node { left: Arc<Tree>, key, value, right: Arc<Tree> }
TreeEmpty == [tag |-> "Empty", left |-> 0, key |-> 0, value |-> 0, right |-> 0]
Node(l, k, v, r) == [tag |-> "Node", left |-> l, key |-> k, value |-> v, right |-> r]

\* Option<V>
None == [some |-> FALSE, value |-> 0]
Some(v) == [some |-> TRUE, value |-> v]

\* Option<Self>
NoTree == [some |-> FALSE, tree |-> TreeEmpty]
SomeTree(t) == [some |-> TRUE, tree |-> t]

\* --------------------------------------------------------- tree operations
empty_map == TreeEmpty

set_empty == TreeEmpty

\* singleton(key, value): one Arc of Empty, shared by both children.
singleton(h, key, value) ==
    LET e == ArcNew(h, empty_map)
    IN  [heap |-> e.heap, tree |-> Node(e.arc, key, value, e.arc)]

\* bind(&self, new_key, new_value): the heap after the allocations and the
\* new tree.  The child not descended into is the cloned Arc (same address).
\* Faulty variant: binding a key already present keeps the old value.
RECURSIVE bind_keeps_value(_, _, _, _)
bind_keeps_value(h, t, new_key, new_value) ==
    IF t.tag = "Empty" THEN singleton(h, new_key, new_value)
    ELSE IF new_key < t.key
    THEN LET b == bind_keeps_value(h, h[t.left], new_key, new_value)
             a == ArcNew(b.heap, b.tree)
         IN  [heap |-> a.heap, tree |-> Node(a.arc, t.key, t.value, t.right)]
    ELSE IF new_key > t.key
    THEN LET b == bind_keeps_value(h, h[t.right], new_key, new_value)
             a == ArcNew(b.heap, b.tree)
         IN  [heap |-> a.heap, tree |-> Node(t.left, t.key, t.value, a.arc)]
    ELSE [heap |-> h, tree |-> Node(t.left, new_key, t.value, t.right)]

\* Faulty variant: the child not descended into is copied into a new Arc.
RECURSIVE bind_copies_sibling(_, _, _, _)
bind_copies_sibling(h, t, new_key, new_value) ==
    IF t.tag = "Empty" THEN singleton(h, new_key, new_value)
    ELSE IF new_key < t.key
    THEN LET b == bind_copies_sibling(h, h[t.left], new_key, new_value)
             a == ArcNew(b.heap, b.tree)
             c == ArcNew(a.heap, h[t.right])
         IN  [heap |-> c.heap, tree |-> Node(a.arc, t.key, t.value, c.arc)]
    ELSE IF new_key > t.key
    THEN LET c == ArcNew(h, h[t.left])
             b == bind_copies_sibling(c.heap, h[t.right], new_key, new_value)
             a == ArcNew(b.heap, b.tree)
         IN  [heap |-> a.heap, tree |-> Node(c.arc, t.key, t.value, a.arc)]
    ELSE [heap |-> h, tree |-> Node(t.left, new_key, new_value, t.right)]

RECURSIVE bind(_, _, _, _)
bind(h, t, new_key, new_value) ==
    IF t.tag = "Empty" THEN singleton(h, new_key, new_value)
    ELSE IF new_key < t.key
    THEN LET b == bind(h, h[t.left], new_key, new_value)
             a == ArcNew(b.heap, b.tree)
         IN  [heap |-> a.heap, tree |-> Node(a.arc, t.key, t.value, t.right)]
    ELSE IF new_key > t.key
    THEN LET b == bind(h, h[t.right], new_key, new_value)
             a == ArcNew(b.heap, b.tree)
         IN  [heap |-> a.heap, tree |-> Node(t.left, t.key, t.value, a.arc)]
    ELSE [heap |-> h, tree |-> Node(t.left, new_key, new_value, t.right)]

\* Faulty variant: the candidate is not replaced when the search goes right.
RECURSIVE lookup_stale_candidate(_, _, _, _, _)
lookup_stale_candidate(h, t, search_key, candidate_key, candidate_value) ==
    IF t.tag = "Empty"
    THEN IF search_key = candidate_key THEN Some(candidate_value) ELSE None
    ELSE IF search_key < t.key
    THEN lookup_stale_candidate(h, h[t.left], search_key, candidate_key, candidate_value)
    ELSE lookup_stale_candidate(h, h[t.right], search_key, candidate_key, candidate_value)

RECURSIVE lookup_with_candidate(_, _, _, _, _)
lookup_with_candidate(h, t, search_key, candidate_key, candidate_value) ==
    IF t.tag = "Empty"
    THEN IF search_key = candidate_key THEN Some(candidate_value) ELSE None
    ELSE IF search_key < t.key
    THEN lookup_with_candidate(h, h[t.left], search_key, candidate_key, candidate_value)
    ELSE lookup_with_candidate(h, h[t.right], search_key, t.key, t.value)

\* One call of lookup_with_candidate, its recursive call left to the
\* caller: either the Option it returns at Empty, or the subtree and the
\* candidate it hands to the next call.
\* Faulty variant: the candidate is not replaced when the search goes right.
lookup_step_stale(h, t, search_key, candidate_key, candidate_value) ==
    IF t.tag = "Empty"
    THEN [done |-> TRUE,
          result |-> IF search_key = candidate_key THEN Some(candidate_value) ELSE None,
          node |-> t, candidate_key |-> candidate_key,
          candidate_value |-> candidate_value]
    ELSE IF search_key < t.key
    THEN [done |-> FALSE, result |-> None, node |-> h[t.left],
          candidate_key |-> candidate_key, candidate_value |-> candidate_value]
    ELSE [done |-> FALSE, result |-> None, node |-> h[t.right],
          candidate_key |-> candidate_key, candidate_value |-> candidate_value]

lookup_step(h, t, search_key, candidate_key, candidate_value) ==
    IF t.tag = "Empty"
    THEN [done |-> TRUE,
          result |-> IF search_key = candidate_key THEN Some(candidate_value) ELSE None,
          node |-> t, candidate_key |-> candidate_key,
          candidate_value |-> candidate_value]
    ELSE IF search_key < t.key
    THEN [done |-> FALSE, result |-> None, node |-> h[t.left],
          candidate_key |-> candidate_key, candidate_value |-> candidate_value]
    ELSE [done |-> FALSE, result |-> None, node |-> h[t.right],
          candidate_key |-> t.key, candidate_value |-> t.value]

lookup(h, t, search_key) ==
    IF t.tag = "Empty" THEN None
    ELSE lookup_with_candidate(h, t, search_key, t.key, t.value)

member(h, t, search_value) == lookup(h, t, search_value).some

\* Faulty variant: the two comparisons are swapped: smaller values go right.
RECURSIVE try_insert_swapped(_, _, _, _)
try_insert_swapped(h, t, new_value, candidate) ==
    IF t.tag = "Empty"
    THEN IF new_value = candidate THEN [heap |-> h, opt |-> NoTree]
         ELSE LET n == singleton(h, new_value, Unit)
              IN  [heap |-> n.heap, opt |-> SomeTree(n.tree)]
    ELSE IF new_value > t.key
    THEN LET r == try_insert_swapped(h, h[t.left], new_value, candidate)
         IN  IF ~r.opt.some THEN r
             ELSE LET a == ArcNew(r.heap, r.opt.tree)
                  IN  [heap |-> a.heap,
                       opt |-> SomeTree(Node(a.arc, t.key, Unit, t.right))]
    ELSE IF new_value < t.key
    THEN LET r == try_insert_swapped(h, h[t.right], new_value, t.key)
         IN  IF ~r.opt.some THEN r
             ELSE LET a == ArcNew(r.heap, r.opt.tree)
                  IN  [heap |-> a.heap,
                       opt |-> SomeTree(Node(t.left, t.key, Unit, a.arc))]
    ELSE [heap |-> h, opt |-> NoTree]

\* try_insert_with_candidate(&self, new_value, candidate): the heap after
\* the allocations and the Option; Arc::new runs only inside map(), that is
\* only when the recursive call returned Some.
RECURSIVE try_insert_with_candidate(_, _, _, _)
try_insert_with_candidate(h, t, new_value, candidate) ==
    IF t.tag = "Empty"
    THEN IF new_value = candidate THEN [heap |-> h, opt |-> NoTree]
         ELSE LET n == singleton(h, new_value, Unit)
              IN  [heap |-> n.heap, opt |-> SomeTree(n.tree)]
    ELSE IF new_value < t.key
    THEN LET r == try_insert_with_candidate(h, h[t.left], new_value, candidate)
         IN  IF ~r.opt.some THEN r
             ELSE LET a == ArcNew(r.heap, r.opt.tree)
                  IN  [heap |-> a.heap,
                       opt |-> SomeTree(Node(a.arc, t.key, Unit, t.right))]
    ELSE IF new_value > t.key
    THEN LET r == try_insert_with_candidate(h, h[t.right], new_value, t.key)
         IN  IF ~r.opt.some THEN r
             ELSE LET a == ArcNew(r.heap, r.opt.tree)
                  IN  [heap |-> a.heap,
                       opt |-> SomeTree(Node(t.left, t.key, Unit, a.arc))]
    ELSE [heap |-> h, opt |-> NoTree]

\* Faulty variant: a value already present is inserted by rebuilding its path.
insert_always_rebuilds(h, t, new_value) == bind(h, t, new_value, Unit)

\* insert(&self, new_value): on None the receiver is cloned (its two child
\* Arcs are cloned, nothing is allocated).
insert(h, t, new_value) ==
    IF t.tag = "Empty" THEN singleton(h, new_value, Unit)
    ELSE LET r == try_insert_with_candidate(h, t, new_value, t.key)
         IN  IF r.opt.some THEN [heap |-> r.heap, tree |-> r.opt.tree]
             ELSE [heap |-> r.heap, tree |-> t]

\* ------------------------------------------------------------ stack state
\* heap: the live Arc<CustomStack> allocations; stack: the version the caller
\* works on; recv, recvView: the receiver of the last call and what it
\* answered before the call; op, out: the last call and its result; ncons:
\* the number of cons calls that built stack from empty(), or -1 when tail
\* or update took part.
VARIABLES heap, stack, recv, recvView, op, out, ncons

svars == <<heap, stack, recv, recvView, op, out, ncons>>

\* ------------------------------------------------------------- tree state
\* theap: the live Arc<Tree> allocations; tree: the version the caller works
\* on; view: whether it is a Tree<K,()> used as a set or a Tree<K,V> used
\* as a map; trecv, trecvView, top, tout: as for the stack; bound: the
\* bindings made since the empty tree, key by key.
VARIABLES theap, tree, view, trecv, trecvView, top, tout, bound

tvars == <<theap, tree, view, trecv, trecvView, top, tout, bound>>

\* ----------------------------------------------------------- search state
\* search: a lookup under way, call by call: the subtree the pending call of
\* lookup_with_candidate is made on, its arguments, and the keys of the
\* nodes the calls before it compared the search key with.
VARIABLES search

vars == <<svars, tvars, search>>

SearchIdle ==
    [pc |-> "idle", node |-> TreeEmpty, search_key |-> 0, candidate_key |-> 0,
     candidate_value |-> 0, visited |-> {}]

Pending(t, sk, ck, cv, seen) ==
    [pc |-> "call", node |-> t, search_key |-> sk, candidate_key |-> ck,
     candidate_value |-> cv, visited |-> seen]

\* -------------------------------------------------------------- stack spec
\* What a caller can observe of version s: its size and every get.
View(h, s) == [size |-> size(h, s), gets |-> [j \in Indices |-> get(h, s, j)]]

\* The last call: its name, its arguments, the heap size when it was made.
Op(name, i, v, h) == [name |-> name, i |-> i, v |-> v, h0 |-> Len(h)]

StackIdle ==
    /\ heap = << >>
    /\ stack = empty
    /\ recv = empty
    /\ recvView = View(<< >>, empty)
    /\ op = Op("empty", 0, 0, << >>)
    /\ out = OkStack(empty)
    /\ ncons = 0

\* What a caller can observe of tree t: every lookup.
TreeView(h, t) == [k \in Keys |-> lookup(h, t, k)]

TreeOp(name, k, v, h) == [name |-> name, k |-> k, v |-> v, h0 |-> Len(h)]

\* The result of the last tree call: an Option<V>, a tree, and what
\* try_insert_with_candidate returned when insert called it.
TreeOut(o, t, helper) == [opt |-> o, tree |-> t, helper |-> helper]

TreeIdle(w) ==
    /\ theap = << >>
    /\ tree = TreeEmpty
    /\ view = w
    /\ trecv = TreeEmpty
    /\ trecvView = TreeView(<< >>, TreeEmpty)
    /\ top = TreeOp("empty", 0, 0, << >>)
    /\ tout = TreeOut(None, TreeEmpty, "none")
    /\ bound = [k \in Keys |-> None]

StackInit == StackIdle /\ TreeIdle("set") /\ search = SearchIdle

\* The receiver of every call stays held by the caller as recv.
Call(name, i, v) ==
    /\ recv' = stack
    /\ recvView' = View(heap, stack)
    /\ op' = Op(name, i, v, heap)
    /\ UNCHANGED <<tvars, search>>

\* CustomStack::empty(), bound over the versions held so far, whose Arcs
\* are thereby dropped; the call has no receiver.
DoEmpty ==
    /\ recv' = empty
    /\ recvView' = View(<< >>, empty)
    /\ op' = Op("empty", 0, 0, << >>)
    /\ UNCHANGED <<tvars, search>>
    /\ heap' = << >>
    /\ stack' = empty
    /\ out' = OkStack(empty)
    /\ ncons' = 0

DoCons ==
    \E v \in Values :
        /\ Len(heap) < MaxHeap
        /\ Call("cons", 0, v)
        /\ LET c == cons(heap, stack, v)
           IN  /\ heap' = c.heap
               /\ stack' = c.stack
               /\ out' = OkStack(c.stack)
        /\ ncons' = IF ncons >= 0 THEN ncons + 1 ELSE ncons

DoHead ==
    /\ Call("head", 0, 0)
    /\ out' = head(stack)
    /\ UNCHANGED <<heap, stack, ncons>>

\* tail(): on success the caller goes on with the stack behind the Arc.
DoTail ==
    /\ Call("tail", 0, 0)
    /\ out' = tail(stack)
    /\ stack' = IF out'.ok THEN heap[out'.arc] ELSE stack
    /\ ncons' = IF out'.ok THEN -1 ELSE ncons
    /\ UNCHANGED heap

DoUpdate ==
    \E i \in Indices, v \in Values :
        LET u == update(heap, stack, i, v)
        IN  /\ Len(u.heap) <= MaxHeap
            /\ Call("update", i, v)
            /\ heap' = u.heap
            /\ out' = u.res
            /\ stack' = IF u.res.ok THEN u.res.stack ELSE stack
            /\ ncons' = IF u.res.ok THEN -1 ELSE ncons

DoGet ==
    \E i \in Indices :
        /\ Call("get", i, 0)
        /\ out' = get(heap, stack, i)
        /\ UNCHANGED <<heap, stack, ncons>>

DoSize ==
    /\ Call("size", 0, 0)
    /\ out' = OkValue(size(heap, stack))
    /\ UNCHANGED <<heap, stack, ncons>>

DoIsEmpty ==
    /\ Call("is_empty", 0, 0)
    /\ out' = OkValue(IF is_empty(stack) THEN 1 ELSE 0)
    /\ UNCHANGED <<heap, stack, ncons>>

StackNext ==
    \/ DoEmpty
    \/ DoCons
    \/ DoHead
    \/ DoTail
    \/ DoUpdate
    \/ DoGet
    \/ DoSize
    \/ DoIsEmpty

StackSpec == StackInit /\ [][StackNext]_vars

\* --------------------------------------------------------------- tree spec
TreeInit ==
    /\ StackIdle
    /\ \E w \in {"set", "map"} : TreeIdle(w)
    /\ search = SearchIdle

\* V of the tree at hand.
ValuesOf(w) == IF w = "set" THEN {Unit} ELSE MapValues

\* Calls are made one after another: none starts while a lookup is under way.
TreeCall(name, k, v) ==
    /\ search.pc = "idle"
    /\ trecv' = tree
    /\ trecvView' = TreeView(theap, tree)
    /\ top' = TreeOp(name, k, v, theap)
    /\ UNCHANGED <<svars, search>>

\* Tree::empty() / Tree::empty_map(), bound over the versions held so far,
\* whose Arcs are thereby dropped; the calls have no receiver.
NoReceiver(name) ==
    /\ search.pc = "idle"
    /\ trecv' = TreeEmpty
    /\ trecvView' = TreeView(<< >>, TreeEmpty)
    /\ top' = TreeOp(name, 0, 0, << >>)
    /\ UNCHANGED <<svars, search>>

DoSetEmpty ==
    /\ NoReceiver("empty")
    /\ theap' = << >>
    /\ tree' = set_empty
    /\ view' = "set"
    /\ tout' = TreeOut(None, set_empty, "none")
    /\ bound' = [k \in Keys |-> None]

DoEmptyMap ==
    /\ NoReceiver("empty_map")
    /\ theap' = << >>
    /\ tree' = empty_map
    /\ view' = "map"
    /\ tout' = TreeOut(None, empty_map, "none")
    /\ bound' = [k \in Keys |-> None]

DoInsert ==
    \E x \in Keys :
        LET r == insert(theap, tree, x)
            tried == IF tree.tag = "Empty" THEN "none"
                     ELSE IF try_insert_with_candidate(theap, tree, x, tree.key).opt.some
                     THEN "Some" ELSE "None"
        IN  /\ view = "set"
            /\ Len(r.heap) <= MaxTreeHeap
            /\ TreeCall("insert", x, Unit)
            /\ theap' = r.heap
            /\ tree' = r.tree
            /\ tout' = TreeOut(None, r.tree, tried)
            /\ bound' = [bound EXCEPT ![x] = Some(Unit)]
            /\ UNCHANGED view

DoBind ==
    \E k \in Keys, v \in ValuesOf(view) :
        LET r == bind(theap, tree, k, v)
        IN  /\ Len(r.heap) <= MaxTreeHeap
            /\ TreeCall("bind", k, v)
            /\ theap' = r.heap
            /\ tree' = r.tree
            /\ tout' = TreeOut(None, r.tree, "none")
            /\ bound' = [bound EXCEPT ![k] = Some(v)]
            /\ UNCHANGED view

DoLookup ==
    \E k \in Keys :
        /\ TreeCall("lookup", k, 0)
        /\ tout' = TreeOut(lookup(theap, tree, k), tree, "none")
        /\ UNCHANGED <<theap, tree, view, bound>>

DoMember ==
    \E x \in Keys :
        /\ view = "set"
        /\ TreeCall("member", x, 0)
        /\ tout' = TreeOut(IF member(theap, tree, x) THEN Some(Unit) ELSE None,
                           tree, "none")
        /\ UNCHANGED <<theap, tree, view, bound>>

TreeNext ==
    \/ DoSetEmpty
    \/ DoEmptyMap
    \/ DoInsert
    \/ DoBind
    \/ DoLookup
    \/ DoMember

TreeSpec == TreeInit /\ [][TreeNext]_vars

\* ------------------------------------------------------------- search spec
\* lookup(search_key): None on Empty, else the first call of
\* lookup_with_candidate, on self, seeded with the root's key and value.
LookupBegin ==
    \E k \in Keys :
        /\ search.pc = "idle"
        /\ IF tree.tag = "Empty"
           THEN /\ search' = SearchIdle
                /\ trecv' = tree
                /\ trecvView' = TreeView(theap, tree)
                /\ top' = TreeOp("lookup", k, 0, theap)
                /\ tout' = TreeOut(None, tree, "none")
           ELSE /\ search' = Pending(tree, k, tree.key, tree.value, {})
                /\ UNCHANGED <<trecv, trecvView, top, tout>>
        /\ UNCHANGED <<svars, theap, tree, view, bound>>

\* The pending call of lookup_with_candidate runs: at a Node it makes the
\* next call, at Empty it returns and lookup returns its Option.
LookupCall ==
    /\ search.pc = "call"
    /\ LET r == lookup_step(theap, search.node, search.search_key,
                            search.candidate_key, search.candidate_value)
       IN  IF r.done
           THEN /\ search' = SearchIdle
                /\ trecv' = tree
                /\ trecvView' = TreeView(theap, tree)
                /\ top' = TreeOp("lookup", search.search_key, 0, theap)
                /\ tout' = TreeOut(r.result, tree, "none")
           ELSE /\ search' = Pending(r.node, search.search_key, r.candidate_key,
                                     r.candidate_value,
                                     search.visited \cup {search.node.key})
                /\ UNCHANGED <<trecv, trecvView, top, tout>>
    /\ UNCHANGED <<svars, theap, tree, view, bound>>

SearchNext ==
    \/ DoSetEmpty
    \/ DoEmptyMap
    \/ DoInsert
    \/ DoBind
    \/ LookupBegin
    \/ LookupCall

SearchSpec == TreeInit /\ [][SearchNext]_vars

\* ------------------------------------------------------------ stack claims
\* The stack reached from s by i calls of tail().
RECURSIVE TailTimes(_, _, _)
TailTimes(h, s, i) ==
    IF i = 0 THEN s ELSE TailTimes(h, h[tail(s).arc], i - 1)

\* The Arc holding the node at index j >= 1 of s (index 0 is s itself).
RECURSIVE ArcAt(_, _, _)
ArcAt(h, s, j) ==
    IF j = 1 THEN s.tail ELSE ArcAt(h, h[s.tail], j - 1)

\* C1: update(s, i, v) with i < size(s) returns a stack of the same size
\* that answers v at i and what s answered at every other index, and s
\* answers size and every get after the call as it did before it.
C1_UpdateValid ==
    (op.name = "update" /\ op.i < recvView.size) =>
        /\ out.ok
        /\ size(heap, out.stack) = recvView.size
        /\ get(heap, out.stack, op.i) = OkValue(op.v)
        /\ \A j \in Indices :
               (j # op.i /\ j < recvView.size) =>
                   get(heap, out.stack, j) = recvView.gets[j]
        /\ View(heap, recv) = recvView

\* An update in the middle of a stack of three or more has succeeded.
C1_Witness ==
    /\ op.name = "update"
    /\ out.ok
    /\ op.i = 1
    /\ recvView.size >= 3
    /\ recvView.gets[1].value # op.v

\* C5: get and update fail, with IndexOutOfRange, exactly when i >= size;
\* head and tail fail, with NoSuchElementException, exactly when the stack
\* is empty; a failed update yields no stack and allocates nothing.
C5_Errors ==
    /\ op.name \in {"get", "update"} =>
           /\ out.ok <=> op.i < recvView.size
           /\ ~out.ok => out = Err(IndexOutOfRange)
    /\ op.name \in {"head", "tail"} =>
           /\ out.ok <=> ~is_empty(recv)
           /\ ~out.ok => out = Err(NoSuchElementException)
    /\ (op.name = "update" /\ ~out.ok) =>
           /\ Len(heap) = op.h0
           /\ stack = recv

\* An update past the end of a non-empty stack has failed.
C5_Witness ==
    /\ op.name = "update"
    /\ recvView.size >= 2
    /\ op.i >= recvView.size
    /\ ~out.ok

\* C6: the stack returned by update(s, i, v) holds, at every index above i,
\* the very Arc that s holds there, and the call allocates nodes for the
\* indices up to i only (index 0 is the returned value itself, so at most
\* i Arcs holding a Cons are new).
C6_SharesSuffix ==
    (op.name = "update" /\ out.ok) =>
        /\ \A j \in Indices :
               (op.i < j /\ j < recvView.size) =>
                   ArcAt(heap, out.stack, j) = ArcAt(heap, recv, j)
        /\ Cardinality({a \in (op.h0 + 1)..Len(heap) : heap[a].tag = "Cons"}) <= op.i

\* C9: a stack built by n cons calls from empty() has size n, and get(i)
\* is head() after i calls of tail(), for every i below the size.
C9_SizeAndGet ==
    /\ ncons >= 0 => size(heap, stack) = ncons
    /\ \A i \in Indices :
           i < size(heap, stack) =>
               get(heap, stack, i) = head(TailTimes(heap, stack, i))

\* Three cons calls from empty() have been made.
C9_Witness ==
    /\ ncons >= 3
    /\ op.name = "cons"
    /\ get(heap, stack, 0).value # get(heap, stack, 2).value

\* C10: s.cons(x).tail() succeeds and is s (same size, same value at every
\* index), s.cons(x).head() succeeds with x, and s.cons(x) is not empty.
C10_ConsHeadTail ==
    op.name = "cons" =>
        /\ tail(stack).ok
        /\ View(heap, heap[tail(stack).arc]) = recvView
        /\ head(stack) = OkValue(op.v)
        /\ ~is_empty(stack)

\* cons on a stack of two or more whose head differs from the new value.
C10_Witness ==
    /\ op.name = "cons"
    /\ recvView.size >= 2
    /\ recvView.gets[0].value # op.v

\* ------------------------------------------------------------- tree claims
\* Every key held by a node of t, wherever it lies.
RECURSIVE KeysOf(_, _)
KeysOf(h, t) ==
    IF t.tag = "Empty" THEN {}
    ELSE {t.key} \cup KeysOf(h, h[t.left]) \cup KeysOf(h, h[t.right])

\* Every key of t lies strictly between lo and hi, and so on down.
RECURSIVE IsBST(_, _, _, _)
IsBST(h, t, lo, hi) ==
    \/ t.tag = "Empty"
    \/ /\ lo < t.key
       /\ t.key < hi
       /\ IsBST(h, h[t.left], lo, t.key)
       /\ IsBST(h, h[t.right], t.key, hi)

\* Along the search path for k, r holds at every node the Arc of t on the
\* side not descended into, and both Arcs of t at the node holding k.
RECURSIVE PathShared(_, _, _, _)
PathShared(h, t, r, k) ==
    \/ t.tag = "Empty"
    \/ /\ r.tag = "Node"
       /\ r.key = t.key
       /\ IF k < t.key
          THEN r.right = t.right /\ PathShared(h, h[t.left], h[r.left], k)
          ELSE IF k > t.key
          THEN r.left = t.left /\ PathShared(h, h[t.right], h[r.right], k)
          ELSE r.left = t.left /\ r.right = t.right

\* The Arcs met below the root of t on the search path for k, and the two
\* child Arcs of the node that holds k.
RECURSIVE PathArcs(_, _, _)
PathArcs(h, t, k) ==
    IF t.tag = "Empty" THEN {}
    ELSE IF k < t.key THEN {t.left} \cup PathArcs(h, h[t.left], k)
    ELSE IF k > t.key THEN {t.right} \cup PathArcs(h, h[t.right], k)
    ELSE {}

RECURSIVE LeavesOf(_, _, _)
LeavesOf(h, t, k) ==
    IF t.tag = "Empty" THEN {}
    ELSE IF k < t.key THEN LeavesOf(h, h[t.left], k)
    ELSE IF k > t.key THEN LeavesOf(h, h[t.right], k)
    ELSE {t.left, t.right}

\* The Arcs the last call allocated.
NewArcs == (top.h0 + 1)..Len(theap)

\* C2: after t.bind(k, v) the new map answers v for k and what t answered
\* for every other key, t answers as before, and every version answers
\* exactly the latest binding of each key, None for a key never bound.
C2_BindLookup ==
    /\ top.name = "bind" =>
           /\ lookup(theap, tree, top.k) = Some(top.v)
           /\ \A k2 \in Keys \ {top.k} : lookup(theap, tree, k2) = trecvView[k2]
           /\ TreeView(theap, trecv) = trecvView
    /\ \A k \in Keys : lookup(theap, tree, k) = bound[k]

\* A key bound below the root has been bound again to another value while
\* some other key is still unbound.
C2_Witness ==
    /\ top.name = "bind"
    /\ view = "map"
    /\ trecvView[top.k].some
    /\ trecvView[top.k].value # top.v
    /\ trecv.key # top.k
    /\ \E k \in Keys : ~bound[k].some

\* C3: t.insert(x).member(y) holds exactly when y = x or t.member(y); the
\* empty set has no member; member holds exactly of the values inserted.
C3_InsertMember ==
    view = "set" =>
        /\ top.name = "insert" =>
               \A y \in Keys :
                   member(theap, tree, y) <=> (y = top.k \/ trecvView[y].some)
        /\ tree = set_empty => \A y \in Keys : ~member(theap, tree, y)
        /\ \A y \in Keys : member(theap, tree, y) <=> bound[y].some

\* A third value has been inserted and some value is still absent.
C3_Witness ==
    /\ view = "set"
    /\ top.name = "insert"
    /\ ~trecvView[top.k].some
    /\ Cardinality({y \in Keys : trecvView[y].some}) >= 2

\* C4: every version made by insert or bind from the empty tree is a binary
\* search tree: at every node the keys to the left are strictly smaller and
\* the keys to the right strictly greater, all the way down.
C4_BST ==
    /\ IsBST(theap, tree, 0, MaxKey + 1)
    /\ IsBST(theap, trecv, 0, MaxKey + 1)

\* A version holds three keys.
C4_Witness ==
    /\ top.name \in {"insert", "bind"}
    /\ Cardinality(KeysOf(theap, tree)) >= 3

\* C7: insert and bind return a tree that holds, at every node on the
\* search path for k, the very Arc of t on the side not descended into (both
\* Arcs at a node holding k); the Nodes they allocate lie on that path, and
\* the one Empty they allocate is the leaf under a newly made node for k.
C7_PathShared ==
    top.name \in {"insert", "bind"} =>
        /\ PathShared(theap, trecv, tree, top.k)
        /\ {a \in NewArcs : theap[a].tag = "Node"} \subseteq PathArcs(theap, tree, top.k)
        /\ {a \in NewArcs : theap[a].tag = "Empty"} \subseteq
               (IF trecvView[top.k].some THEN {} ELSE LeavesOf(theap, tree, top.k))

\* A key has been added to the right of a root whose left child is a Node.
C7_Witness ==
    /\ top.name \in {"insert", "bind"}
    /\ trecv.tag = "Node"
    /\ top.k > trecv.key
    /\ theap[trecv.left].tag = "Node"
    /\ ~trecvView[top.k].some
    /\ Len(theap) > top.h0

\* C8: on a non-empty set try_insert_with_candidate returns None exactly
\* when the value is a key of the tree; insert then allocates nothing and
\* returns the root key and the two child Arcs of the receiver, so every
\* member query is answered as by the receiver.
C8_InsertNoop ==
    (top.name = "insert" /\ trecv.tag = "Node") =>
        /\ tout.helper = "None" <=> top.k \in KeysOf(theap, trecv)
        /\ tout.helper = "None" =>
               /\ Len(theap) = top.h0
               /\ tree.key = trecv.key
               /\ tree.left = trecv.left
               /\ tree.right = trecv.right
               /\ \A y \in Keys : member(theap, tree, y) <=> trecvView[y].some

\* A value held below the root has been inserted again.
C8_Witness ==
    /\ top.name = "insert"
    /\ tout.helper = "None"
    /\ trecv.tag = "Node"
    /\ trecv.key # top.k

\* ----------------------------------------------------------- search claims
\* The keys already compared with that are not above the search key.
LowerBounds == {v \in search.visited : v <= search.search_key}

\* C11 (as stated): at every call of lookup_with_candidate, the first one
\* included, the candidate key is at most the search key and no key visited
\* so far lies strictly between the two.
C11_CandidateTightest ==
    search.pc = "call" =>
        /\ search.candidate_key <= search.search_key
        /\ \A v \in search.visited :
               ~(search.candidate_key < v /\ v < search.search_key)

\* C11 (amended): at every call of lookup_with_candidate the candidate is the
\* greatest key visited so far that is at most the search key, once there is
\* one; until then it is the root key the search was seeded with, whether
\* or not that key is above the search key.
C11_CandidateOrSeed ==
    search.pc = "call" =>
        IF LowerBounds = {}
        THEN search.candidate_key = tree.key
        ELSE /\ search.candidate_key \in LowerBounds
             /\ \A v \in LowerBounds : v <= search.candidate_key

\* A call is pending after two nodes were visited, with a candidate that is
\* no longer the seed.
C11_Witness ==
    /\ search.pc = "call"
    /\ Cardinality(search.visited) >= 2
    /\ search.candidate_key # tree.key
    /\ search.candidate_key <= search.search_key

====
